---- MODULE Spec2Model ----
(***************************************************************************)
(* boost::hana::Type (include/boost/hana/type.hpp): C++ types reified as   *)
(* constexpr objects, and the functions over them: type<T>, untype,        *)
(* decltype_, template_<f>, lift<f>, lift_<f>, the call operator of a      *)
(* Type (construct) and Comparable<Type, Type>::equal_impl.                *)
(*                                                                         *)
(* A C++ type is a record [k, n, c, a]: k is its kind ("base", "wrapper",  *)
(* "inst"), n its name, c its top-level const qualifier and a its template *)
(* arguments (for a wrapper: the one hidden type).  An object is a record  *)
(* [ty, init, args]: its type, how it was initialised and from what.       *)
(* The state machine evaluates one constant expression at a time, as the   *)
(* static assertions of the examples do, and may go on to use its result.  *)
(***************************************************************************)
EXTENDS Integers, Sequences, FiniteSets, TLC

VARIABLES
    pc,      \* "idle", "done" (res may be used further) or "final"
    op,      \* the function evaluated last
    via,     \* the function whose result op was applied to, or "none"
    f,       \* the template of template_<f>, lift<f>, lift_<f>
    Ts,      \* the types T... the Type arguments were made of
    args,    \* the arguments of the function
    callee,  \* the Type object that was called
    cargs,   \* the arguments it was called with
    res,     \* the object returned
    U,       \* the type named by untype, or compared with
    truth    \* the value of a returned true_ / false_ / type trait

vars == <<pc, op, via, f, Ts, args, callee, cargs, res, U, truth>>

\* Longest argument list of a call.
MaxArgs == 2

----------------------------------------------------------------------------
\* C++ types

Ty(k, n, c, a) == [k |-> k, n |-> n, c |-> c, a |-> a]

Base(n) == Ty("base", n, FALSE, <<>>)

Const(t) == [t EXCEPT !.c = TRUE]

\* The type deduced for a by-value parameter or an `auto` return type: the
\* top-level cv-qualifier of the argument's type is dropped.
remove_cv(t) == [t EXCEPT !.c = FALSE]

\* f<a1, ..., aN>
Inst(g, a) == Ty("inst", g, FALSE, a)

\* The local struct `wrapper` of make_wrapper<T>: one distinct class for each
\* T, with the member type hidden = T and hana_datatype = Type.
wrapper(T) == Ty("wrapper", "", FALSE, <<T>>)

NoType == Ty("none", "", FALSE, <<>>)

BaseNames == {"int", "char", "long long", "double", "void"}

IntegralNames == {"int", "char", "long long"}

\* The types the examples name, and their const-qualified versions.
SourceTypes == {Base(n) : n \in BaseNames} \cup {Const(Base(n)) : n \in BaseNames}

\* The templates that are lifted, and the numbers of arguments each accepts.
Templates == {"is_integral", "is_floating_point", "vector", "tuple"}

Arity(g) == IF g = "tuple" THEN 0..MaxArgs ELSE {1}

----------------------------------------------------------------------------
\* Objects

Obj(ty, init, as) == [ty |-> ty, init |-> init, args |-> as]

NoObj == Obj(NoType, "none", <<>>)

\* Passing or returning an object by value: a copy whose type has lost its
\* top-level const.
ByValue(x) == [x EXCEPT !.ty = remove_cv(x.ty)]

\* Args ...args: every argument passed by value.
ByValues(xs) == [i \in 1..Len(xs) |-> ByValue(xs[i])]

\* decltype(t)... for the by-value parameters t...
decltypes(xs) == [i \in 1..Len(xs) |-> ByValue(xs[i]).ty]

SeqsUpTo(S, n) == UNION {[1..m -> S] : m \in 0..n}

\* Whether an object's data type is Type (wrapper::hana_datatype).
IsType(x) == x.ty.k = "wrapper"

make_wrapper_cvblind(T) == Obj(wrapper(remove_cv(T)), "list", <<>>)

\* type_detail::make_wrapper<T>(): returns wrapper{}.
make_wrapper(T) == Obj(wrapper(T), "list", <<>>)

\* template <typename T> constexpr auto type = make_wrapper<T>();
\* a constexpr variable, so decltype(type<T>) is const-qualified.
type(T) == [make_wrapper(T) EXCEPT !.ty = Const(make_wrapper(T).ty)]

untype_decayed(W) == remove_cv(W.a[1])

\* untype<W>::type = typename W::hidden (ill-formed unless W is a wrapper).
untype(W) == W.a[1]

\* untype_t<decltype(t)>... for the by-value parameters t...
untypes(ts) == [i \in 1..Len(ts) |-> untype(ByValue(ts[i]).ty)]

\* decltype_ = [](auto t) { return type<decltype(t)>; }
decltype_(x) == ByValue(type(ByValue(x).ty))

Template_nounwrap(g, ts) ==
    ByValue(type(Inst(g, decltypes(ts))))

\* type_detail::Template<f>::operator()(Args...): type<f<untype_t<Args>...>>,
\* Args deduced from by-value parameters, the result returned as `auto`.
Template(g, ts) ==
    ByValue(type(Inst(g, untypes(ts))))

lift_wrapped(g, ts) == Template(g, ts)

\* type_detail::lift<f>::operator()(T ...t): f<untype_t<decltype(t)>...>{}
lift(g, ts) ==
    Obj(Inst(g, untypes(ts)), "list", <<>>)

lift__forwarded(g, xs) ==
    Obj(Inst(g, [i \in 1..Len(xs) |-> xs[i].ty]), "list", <<>>)

\* type_detail::lift_<f>::operator()(T ...t): f<decltype(t)...>{}
lift_(g, xs) == Obj(Inst(g, decltypes(xs)), "list", <<>>)

\* Whether the single argument of a call selects construct's first overload,
\* operator()(std::initializer_list<T>): it is the more specialised of the two.
IsIList(as) ==
    Len(as) = 1 /\ as[1].ty.k = "inst" /\ as[1].ty.n = "initializer_list"

construct_braces_only(w, as) ==
    Obj(remove_cv(untype(w.ty)), "list", ByValues(as))

\* type_detail::construct<Wrapper>::operator(): Wrapper::hidden(ilist) for an
\* initializer_list, Wrapper::hidden{args...} otherwise; returned as `auto`.
construct(w, as) ==
    IF IsIList(as)
    THEN Obj(remove_cv(untype(w.ty)), "direct", ByValues(as))
    ELSE Obj(remove_cv(untype(w.ty)), "list", ByValues(as))

equal_impl_exact(x, y) == x.ty = y.ty

\* Comparable<Type, Type>::equal_impl: the overload (T, T) is chosen, and
\* true_ returned, exactly when both by-value parameters have one type.
equal_impl(x, y) == ByValue(x).ty = ByValue(y).ty

\* The value of a lifted type trait object (std::integral_constant<bool, v>).
value(x) ==
    /\ x.ty.k = "inst"
    /\ Len(x.ty.a) = 1
    /\ x.ty.a[1].k = "base"
    /\ \/ x.ty.n = "is_integral" /\ x.ty.a[1].n \in IntegralNames
       \/ x.ty.n = "is_floating_point" /\ x.ty.a[1].n = "double"

----------------------------------------------------------------------------
\* Well-formedness of the expressions the functions return

\* A list-initialisation from a function parameter must not narrow
\* ("non-constant-expression cannot be narrowed", type.hpp).
NonNarrowing(from, to) ==
    \/ from = to
    \/ <<from, to>> \in {<<"char", "int">>, <<"char", "long long">>,
                         <<"int", "long long">>}

RECURSIVE DefaultConstructible(_)
\* Whether T{} is well-formed.
DefaultConstructible(T) ==
    CASE T.k = "base" -> T.n # "void"
      [] T.k = "wrapper" -> TRUE
      [] T.k = "inst" /\ T.n = "vector" ->
            /\ ~T.a[1].c
            /\ DefaultConstructible(T.a[1])
      [] T.k = "inst" /\ T.n = "tuple" ->
            \A i \in 1..Len(T.a) : DefaultConstructible(T.a[i])
      [] OTHER -> T.k = "inst"

\* Whether T{as...}, or T(ilist) for an initializer_list, is well-formed.
Constructible(T, as) ==
    /\ DefaultConstructible(T)
    /\ \/ Len(as) = 0
       \/ /\ T.k = "base"
          /\ Len(as) = 1
          /\ as[1].ty.k = "base"
          /\ NonNarrowing(as[1].ty.n, T.n)
       \/ /\ T.k = "inst" /\ T.n = "vector"
          /\ T.a[1].k = "base"
          /\ IF IsIList(as)
             THEN as[1].ty.a[1] = T.a[1]
             ELSE \A i \in 1..Len(as) :
                     /\ as[i].ty.k = "base"
                     /\ NonNarrowing(as[i].ty.n, T.a[1].n)
       \/ /\ T.k = "inst" /\ T.n = "tuple"
          /\ Len(as) = Len(T.a)
          /\ \A i \in 1..Len(as) : remove_cv(as[i].ty) = remove_cv(T.a[i])

----------------------------------------------------------------------------
\* The operands of the evaluated expressions

\* 2, 'c', 2ll, 2.2
Literals == {Obj(Base(n), "lit", <<>>) : n \in BaseNames \ {"void"}}

\* const int n = 2;
ConstVars == {Obj(Const(Base("int")), "lit", <<>>)}

\* std::initializer_list<int>{2}
IList == Obj(Inst("initializer_list", <<Base("int")>>), "lit",
             <<Obj(Base("int"), "lit", <<>>)>>)

\* The types T of the evaluated type<T>: the source types, decltype(type<int>)
\* and the unqualified type of type<char>.
TypeInputs ==
    SourceTypes \cup {type(Base("int")).ty, remove_cv(type(Base("char")).ty)}

Operands == Literals \cup ConstVars \cup {type(t) : t \in SourceTypes}

CallArgs == SeqsUpTo(Literals, MaxArgs) \cup {<<IList>>}

\* The Type arguments for the types ts: the variables type<t> themselves, or
\* copies of them.
TypeArgs(ts, copied) ==
    [i \in 1..Len(ts) |-> IF copied THEN ByValue(type(ts[i])) ELSE type(ts[i])]

----------------------------------------------------------------------------
\* Evaluation

Init ==
    /\ pc = "idle"
    /\ op = "none"
    /\ via = "none"
    /\ f = "none"
    /\ Ts = <<>>
    /\ args = <<>>
    /\ callee = NoObj
    /\ cargs = <<>>
    /\ res = NoObj
    /\ U = NoType
    /\ truth = FALSE

\* type<T>
EvalType ==
    \E t \in TypeInputs :
        /\ pc = "idle"
        /\ pc' = "done"
        /\ op' = "type"
        /\ Ts' = <<t>>
        /\ res' = type(t)
        /\ UNCHANGED <<via, f, args, callee, cargs, U, truth>>

\* decltype_(x)
EvalDecltype ==
    \E x \in Operands :
        /\ pc = "idle"
        /\ pc' = "done"
        /\ op' = "decltype_"
        /\ args' = <<x>>
        /\ res' = decltype_(x)
        /\ UNCHANGED <<via, f, Ts, callee, cargs, U, truth>>

\* equal(type<T>, type<U>), on the variables or on copies of them
EvalEqual ==
    \E t \in TypeInputs, u \in TypeInputs, ct \in BOOLEAN, cu \in BOOLEAN :
        /\ pc = "idle"
        /\ pc' = "final"
        /\ op' = "equal"
        /\ Ts' = <<t, u>>
        /\ args' = TypeArgs(<<t>>, ct) \o TypeArgs(<<u>>, cu)
        /\ truth' = equal_impl(args'[1], args'[2])
        /\ UNCHANGED <<via, f, callee, cargs, res, U>>

\* template_<f>(type<x1>, ..., type<xN>)
EvalTemplate ==
    \E g \in Templates, ts \in SeqsUpTo(SourceTypes, MaxArgs), c \in BOOLEAN :
        /\ pc = "idle"
        /\ Len(ts) \in Arity(g)
        /\ pc' = "done"
        /\ op' = "template_"
        /\ f' = g
        /\ Ts' = ts
        /\ args' = TypeArgs(ts, c)
        /\ res' = Template(g, args')
        /\ UNCHANGED <<via, callee, cargs, U, truth>>

\* lift<f>(type<x1>, ..., type<xN>)
EvalLift ==
    \E g \in Templates, ts \in SeqsUpTo(SourceTypes, MaxArgs), c \in BOOLEAN :
        /\ pc = "idle"
        /\ Len(ts) \in Arity(g)
        /\ DefaultConstructible(Inst(g, ts))
        /\ pc' = "final"
        /\ op' = "lift"
        /\ f' = g
        /\ Ts' = ts
        /\ args' = TypeArgs(ts, c)
        /\ res' = lift(g, args')
        /\ truth' = value(res')
        /\ UNCHANGED <<via, callee, cargs, U>>

\* lift_<f>(x1, ..., xN)
EvalLift_ ==
    \E g \in Templates, xs \in SeqsUpTo(Operands, MaxArgs) :
        /\ pc = "idle"
        /\ Len(xs) \in Arity(g)
        /\ DefaultConstructible(lift_(g, xs).ty)
        /\ pc' = "final"
        /\ op' = "lift_"
        /\ f' = g
        /\ args' = xs
        /\ res' = lift_(g, xs)
        /\ truth' = value(res')
        /\ UNCHANGED <<via, Ts, callee, cargs, U>>

\* res(as...): the Type object just returned is called
Call ==
    \E as \in CallArgs :
        /\ pc = "done"
        /\ IsType(res)
        /\ Constructible(untype(res.ty), as)
        /\ op' = "call"
        /\ via' = op
        /\ callee' = res
        /\ cargs' = as
        /\ res' = construct(res, as)
        /\ UNCHANGED <<pc, f, Ts, args, U, truth>>

\* untype_t<decltype(res)>
Untype ==
    /\ pc = "done"
    /\ IsType(res)
    /\ pc' = "final"
    /\ op' = "untype"
    /\ via' = op
    /\ U' = untype(res.ty)
    /\ UNCHANGED <<f, Ts, args, callee, cargs, res, truth>>

\* equal(type<untype_t<decltype(res)>>, res)
Retype ==
    /\ pc = "final"
    /\ op = "untype"
    /\ op' = "retype"
    /\ truth' = equal_impl(type(U), res)
    /\ UNCHANGED <<pc, via, f, Ts, args, callee, cargs, res, U>>

\* equal(res, type<U>): U is the type expected of res, or any other
Compare ==
    /\ pc = "done"
    /\ IsType(res)
    /\ \E u \in TypeInputs \cup {untype(res.ty), Inst(f, Ts)} :
        /\ pc' = "final"
        /\ op' = "equal"
        /\ via' = op
        /\ U' = u
        /\ truth' = equal_impl(res, type(u))
        /\ UNCHANGED <<f, Ts, args, callee, cargs, res>>

\* The next constant expression
Reset ==
    /\ pc # "idle"
    /\ pc' = "idle"
    /\ op' = "none"
    /\ via' = "none"
    /\ f' = "none"
    /\ Ts' = <<>>
    /\ args' = <<>>
    /\ callee' = NoObj
    /\ cargs' = <<>>
    /\ res' = NoObj
    /\ U' = NoType
    /\ truth' = FALSE

Next ==
    \/ EvalType
    \/ EvalDecltype
    \/ EvalEqual
    \/ EvalTemplate
    \/ EvalLift
    \/ EvalLift_
    \/ Call
    \/ Untype
    \/ Retype
    \/ Compare
    \/ Reset

Spec == Init /\ [][Next]_vars

----------------------------------------------------------------------------
\* Properties

\* C1: equal(type<T>, type<U>) is true if and only if T and U are the same
\* C++ type, whether the Type objects compared are the variables type<T>,
\* type<U> themselves or copies of them.
C1_EqualIffSameType ==
    /\ (op = "equal" /\ via = "none") => (truth <=> (Ts[1] = Ts[2]))
    /\ (op = "equal" /\ via = "type") => (truth <=> (U = Ts[1]))

\* type<const int> has been compared with a copy of type<const int>: equal,
\* though the two objects differ in their const qualification.
C1_Witness ==
    /\ op = "equal"
    /\ via = "none"
    /\ Ts[1] = Const(Base("int"))
    /\ Ts[2] = Ts[1]
    /\ args[1].ty # args[2].ty
    /\ truth

\* C2: untype is the inverse of type: untype_t<decltype(type<T>)> is exactly
\* T, and type<untype_t<W>> equals w for every Type object w of type W.
C2_UntypeInvertsType ==
    /\ (op \in {"untype", "retype"} /\ via = "type") => U = Ts[1]
    /\ op = "retype" => truth

\* The round trip has been made on type<const char>.
C2_Witness ==
    /\ op = "retype"
    /\ via = "type"
    /\ Ts = <<Const(Base("char"))>>
    /\ U = Const(Base("char"))
    /\ truth

\* C3: template_<f>(type<x1>, ..., type<xN>) is a Type object, it represents
\* f<x1, ..., xN> with the arguments in order, and it compares equal to
\* type<U> exactly when U is f<x1, ..., xN>.
C3_TemplateOfTypes ==
    /\ op = "template_" => (IsType(res) /\ res.ty = wrapper(Inst(f, Ts)))
    /\ (op = "equal" /\ via = "template_") => (truth <=> (U = Inst(f, Ts)))

\* template_<tuple>(type<char>, type<const int>) == type<tuple<char, const int>>
C3_Witness ==
    /\ op = "equal"
    /\ via = "template_"
    /\ f = "tuple"
    /\ Ts = <<Base("char"), Const(Base("int"))>>
    /\ U = Inst("tuple", Ts)
    /\ truth

\* C4: lift<f>(t...) and template_<f>(t...)() both are a default-constructed
\* object of the type f<untype_t<decltype(t)>...>, and not a Type object.
C4_LiftIsTemplateCalled ==
    /\ op = "lift" =>
          /\ res = Obj(Inst(f, Ts), "list", <<>>)
          /\ res = construct(Template(f, args), <<>>)
          /\ ~IsType(res)
    /\ (op = "call" /\ via = "template_" /\ cargs = <<>>) =>
          /\ res = lift(f, args)
          /\ res = Obj(Inst(f, Ts), "list", <<>>)

\* template_<tuple>(type<int>, type<double>)() has been evaluated.
C4_Witness ==
    /\ op = "call"
    /\ via = "template_"
    /\ cargs = <<>>
    /\ f = "tuple"
    /\ Ts = <<Base("int"), Base("double")>>
    /\ res = lift(f, args)

C6_AsStated ==
    op = "call" =>
        /\ remove_cv(res.ty) = remove_cv(untype(callee.ty))
        /\ res.args = ByValues(cargs)
        /\ res.init = IF IsIList(cargs) THEN "direct" ELSE "list"
        /\ ~IsType(res)

\* C6, amended: type<T>(args...) returns an object of type T less its
\* top-level const, T{args...} or T(ilist) of exactly those arguments; it is
\* a Type object exactly when T is itself the type of a Type object.
C6_CallConstructs ==
    op = "call" =>
        /\ res.ty = remove_cv(untype(callee.ty))
        /\ res.args = ByValues(cargs)
        /\ res.init = IF IsIList(cargs) THEN "direct" ELSE "list"
        /\ IsType(res) <=> (untype(callee.ty).k = "wrapper")

\* type<vector<int>> has been called with an initializer_list<int>.
C6_Witness ==
    /\ op = "call"
    /\ IsIList(cargs)
    /\ untype(callee.ty) = Inst("vector", <<Base("int")>>)
    /\ res = Obj(Inst("vector", <<Base("int")>>), "direct", cargs)

====
